---- MODULE Spec2Model ----
(***************************************************************************)
(* A model of typedcollections: the four type-enforcing containers         *)
(* (TypedList, TypedDict, MultiTypedList, MultiTypedDict) and the          *)
(* checkarguments decorator of src/typedcollections/__init__.py, as the    *)
(* module behaves when __debug__ is true.                                  *)
(***************************************************************************)
EXTENDS Integers, Sequences, FiniteSets, TLC

(***************************************************************************)
(* Bounds of the model.                                                    *)
(***************************************************************************)
MaxLen == 2
MaxKw == 2
MaxCalls == 2
MaxInst == 2

(***************************************************************************)
(* Python runtime types and values.  A value is a record of its runtime    *)
(* type and a payload; bool is a subclass of int, and every class is a     *)
(* subclass of object.                                                     *)
(***************************************************************************)
Types == {"int", "bool", "str", "NoneType", "object"}

V(t, n) == [t |-> t, n |-> n]

None == V("NoneType", 0)

Values == {V("int", 1), V("bool", 1), V("str", 1), None}

type(v) == v.t

\* The method resolution order of a builtin class, as a set of classes.
Mro(c) ==
    CASE c = "bool" -> {"bool", "int", "object"}
      [] c = "object" -> {"object"}
      [] OTHER -> {c, "object"}

\* issubclass(c, T) for a class c and a tuple of classes T.
issubclass(c, T) == \E t \in T : t \in Mro(c)

\* Sequences over S of length at most n.
SeqsUpTo(S, n) == UNION {[1..k -> S] : k \in 0..n}

\* Python's list index normalisation: the 1-based position an index i
\* denotes in a sequence of length n, or 0 when i is out of range.
Pos(i, n) ==
    IF i >= 0 /\ i < n THEN i + 1
    ELSE IF i < 0 /\ i >= -n THEN i + n + 1
    ELSE 0

\* d[k] = v on a dict d.
DictSet(d, k, v) == [x \in (DOMAIN d) \cup {k} |-> IF x = k THEN v ELSE d[x]]

EmptyDict == <<>>

VARIABLES
    obj,     \* the TypedList / TypedDict / MultiTypedList instance the program holds
    data,    \* MultiTypedDict.data, the class attribute
    insts,   \* the MultiTypedDict instances constructed so far: id -> class name
    calls,   \* how many times the function wrapped by checkarguments was invoked
    last     \* the last operation, its inputs and its outcome

vars == <<obj, data, insts, calls, last>>

NoObj == [kind |-> "none", cls |-> "none", data |-> <<>>]

NoOp ==
    [op |-> "none", cls |-> "none", inst |-> 0, idx |-> 0, key |-> None,
     val |-> None, args |-> <<>>, kwargs |-> <<>>, outcome |-> "none",
     slot |-> "none", name |-> "", missing |-> {}, invoked |-> 0, ret |-> <<>>]

Init ==
    /\ obj = NoObj
    /\ data = EmptyDict
    /\ insts = <<>>
    /\ calls = 0
    /\ last = NoOp

(***************************************************************************)
(* TypedList                                                               *)
(***************************************************************************)
\* The subclasses of TypedList the program declares: name -> type.
TypedListClasses ==
    [TypedList |-> {"NoneType"}, FooTL |-> {"int"}, StrOrNoneTL |-> {"str", "NoneType"}]

\* A check by exact type, without the subclass relation.
TL_check_exact(cls, a) == type(a) \in TypedListClasses[cls]

\* TypedList._check(a): TRUE when no TypeError is raised.
TL_check(cls, a) == issubclass(type(a), TypedListClasses[cls])

TL_init(cls, args) ==
    /\ IF \A j \in 1..Len(args) : TL_check(cls, args[j])
       THEN /\ obj' = [kind |-> "TypedList", cls |-> cls, data |-> args]
            /\ last' = [NoOp EXCEPT !.op = "TypedList.__init__", !.cls = cls,
                                    !.outcome = "ok"]
       ELSE /\ obj' = obj
            /\ last' = [NoOp EXCEPT !.op = "TypedList.__init__", !.cls = cls,
                                    !.outcome = "TypeError"]
    /\ UNCHANGED <<data, insts, calls>>

TL_setitem(item, val) ==
    /\ obj.kind = "TypedList"
    /\ IF ~TL_check(obj.cls, val)
       THEN /\ obj' = obj
            /\ last' = [NoOp EXCEPT !.op = "TypedList.__setitem__", !.cls = obj.cls,
                                    !.idx = item, !.val = val, !.outcome = "TypeError"]
       ELSE IF Pos(item, Len(obj.data)) = 0
       THEN /\ obj' = obj
            /\ last' = [NoOp EXCEPT !.op = "TypedList.__setitem__", !.cls = obj.cls,
                                    !.idx = item, !.val = val, !.outcome = "IndexError"]
       ELSE /\ obj' = [obj EXCEPT !.data[Pos(item, Len(obj.data))] = val]
            /\ last' = [NoOp EXCEPT !.op = "TypedList.__setitem__", !.cls = obj.cls,
                                    !.idx = item, !.val = val, !.outcome = "ok"]
    /\ UNCHANGED <<data, insts, calls>>

\* append, inherited from UserList: TypedList does not override it.
TL_append(val) ==
    /\ obj.kind = "TypedList"
    /\ Len(obj.data) < MaxLen
    /\ obj' = [obj EXCEPT !.data = Append(obj.data, val)]
    /\ last' = [NoOp EXCEPT !.op = "TypedList.append", !.cls = obj.cls,
                            !.val = val, !.outcome = "ok"]
    /\ UNCHANGED <<data, insts, calls>>

\* insert, inherited from UserList: the value is stored unchecked, at the
\* position list.insert clamps the index to.
TL_insert(i, val) ==
    /\ obj.kind = "TypedList"
    /\ Len(obj.data) < MaxLen
    /\ LET n == Len(obj.data)
           p == IF i >= n THEN n ELSE IF i >= 0 THEN i ELSE IF i + n >= 0 THEN i + n ELSE 0
       IN obj' = [obj EXCEPT !.data =
                     SubSeq(obj.data, 1, p) \o <<val>> \o SubSeq(obj.data, p + 1, n)]
    /\ last' = [NoOp EXCEPT !.op = "TypedList.insert", !.cls = obj.cls, !.idx = i,
                            !.val = val, !.outcome = "ok"]
    /\ UNCHANGED <<data, insts, calls>>

\* extend, inherited from UserList.
TL_extend(other) ==
    /\ obj.kind = "TypedList"
    /\ Len(obj.data) + Len(other) <= MaxLen
    /\ obj' = [obj EXCEPT !.data = obj.data \o other]
    /\ last' = [NoOp EXCEPT !.op = "TypedList.extend", !.cls = obj.cls,
                            !.args = other, !.outcome = "ok"]
    /\ UNCHANGED <<data, insts, calls>>

(***************************************************************************)
(* TypedDict                                                               *)
(***************************************************************************)
\* The subclasses of TypedDict the program declares: name -> key_type, value_type.
TypedDictClasses ==
    [TypedDict |-> [key_type |-> {"str"}, value_type |-> {"NoneType"}],
     FooTD |-> [key_type |-> {"str"}, value_type |-> {"int"}],
     AnyKeyTD |-> [key_type |-> {"str", "int"}, value_type |-> {"int", "NoneType"}]]

\* Dictionary keys: two strings and an integer.
Keys == {V("str", 1), V("str", 2), V("int", 7)}

StrKeys == {k \in Keys : type(k) = "str"}

\* Keyword arguments: sequences of (name, value) pairs with distinct names.
Kwargs(names, vals, n) ==
    {kw \in SeqsUpTo(names \X vals, n) :
        \A i, j \in 1..Len(kw) : i # j => kw[i][1] # kw[j][1]}

\* TypedDict.__setitem__ on the dict d of an instance of cls: the outcome,
\* the failing slot and the dict afterwards.
TD_store(cls, d, key, val) ==
    IF ~issubclass(type(key), TypedDictClasses[cls].key_type)
    THEN [outcome |-> "TypeError", slot |-> "keys", data |-> d]
    ELSE IF ~issubclass(type(val), TypedDictClasses[cls].value_type)
    THEN [outcome |-> "TypeError", slot |-> "values", data |-> d]
    ELSE [outcome |-> "ok", slot |-> "none", data |-> DictSet(d, key, val)]

\* The loop of TypedDict.__init__ over kwargs from position j on.
RECURSIVE TD_fill(_, _, _, _)
TD_fill(cls, d, kwargs, j) ==
    IF j > Len(kwargs) THEN [outcome |-> "ok", slot |-> "none", data |-> d]
    ELSE LET r == TD_store(cls, d, kwargs[j][1], kwargs[j][2])
         IN IF r.outcome # "ok" THEN r ELSE TD_fill(cls, r.data, kwargs, j + 1)

TD_init(cls, kwargs) ==
    /\ LET r == TD_fill(cls, EmptyDict, kwargs, 1)
       IN /\ obj' = IF r.outcome = "ok"
                    THEN [kind |-> "TypedDict", cls |-> cls, data |-> r.data]
                    ELSE obj
          /\ last' = [NoOp EXCEPT !.op = "TypedDict.__init__", !.cls = cls,
                                  !.outcome = r.outcome,
                                  !.slot = r.slot]
    /\ UNCHANGED <<data, insts, calls>>

TD_setitem(key, val) ==
    /\ obj.kind = "TypedDict"
    /\ LET r == TD_store(obj.cls, obj.data, key, val)
       IN /\ obj' = [obj EXCEPT !.data = r.data]
          /\ last' = [NoOp EXCEPT !.op = "TypedDict.__setitem__", !.cls = obj.cls,
                                  !.key = key, !.val = val, !.outcome = r.outcome,
                                  !.slot = r.slot]
    /\ UNCHANGED <<data, insts, calls>>

(***************************************************************************)
(* MultiTypedList                                                          *)
(***************************************************************************)
\* The subclasses of MultiTypedList the program declares: name -> type, a
\* tuple with one entry per position.
MultiTypedListClasses ==
    [MultiTypedList |-> <<{"NoneType"}>>,
     FooMTL |-> <<{"int"}, {"str"}>>,
     MyMTL |-> <<{"int"}, {"int"}>>]

\* MultiTypedList._check(i, v): "ok", or the exception raised.  type[i] is
\* Python tuple indexing, so a negative i counts from the end of type.
MTL_check(cls, i, v) ==
    LET T == MultiTypedListClasses[cls]
    IN IF Pos(i, Len(T)) = 0 THEN "IndexError"
       ELSE IF ~issubclass(type(v), T[Pos(i, Len(T))]) THEN "TypeError"
       ELSE "ok"

\* The loop of MultiTypedList.__init__ over enumerate(args) from position j on.
RECURSIVE MTL_checkall(_, _, _)
MTL_checkall(cls, args, j) ==
    IF j > Len(args) THEN "ok"
    ELSE IF MTL_check(cls, j - 1, args[j]) # "ok" THEN MTL_check(cls, j - 1, args[j])
    ELSE MTL_checkall(cls, args, j + 1)

MTL_init(cls, args) ==
    /\ LET r == MTL_checkall(cls, args, 1)
       IN /\ obj' = IF r = "ok"
                    THEN [kind |-> "MultiTypedList", cls |-> cls, data |-> args]
                    ELSE obj
          /\ last' = [NoOp EXCEPT !.op = "MultiTypedList.__init__", !.cls = cls,
                                  !.outcome = r]
    /\ UNCHANGED <<data, insts, calls>>

MTL_setitem(i, v) ==
    /\ obj.kind = "MultiTypedList"
    /\ LET r == MTL_check(obj.cls, i, v)
           p == Pos(i, Len(obj.data))
       IN IF r # "ok"
          THEN /\ obj' = obj
               /\ last' = [NoOp EXCEPT !.op = "MultiTypedList.__setitem__",
                                       !.cls = obj.cls, !.idx = i, !.val = v,
                                       !.outcome = r]
          ELSE IF p = 0
          THEN /\ obj' = obj
               /\ last' = [NoOp EXCEPT !.op = "MultiTypedList.__setitem__",
                                       !.cls = obj.cls, !.idx = i, !.val = v,
                                       !.outcome = "IndexError"]
          ELSE /\ obj' = [obj EXCEPT !.data[p] = v]
               /\ last' = [NoOp EXCEPT !.op = "MultiTypedList.__setitem__",
                                       !.cls = obj.cls, !.idx = i, !.val = v,
                                       !.outcome = "ok"]
    /\ UNCHANGED <<data, insts, calls>>

NextSingle ==
    \/ \E cls \in DOMAIN TypedListClasses, args \in SeqsUpTo(Values, MaxLen) :
          TL_init(cls, args)
    \/ \E item \in -(MaxLen + 1)..MaxLen, val \in Values : TL_setitem(item, val)
    \/ \E val \in Values : TL_append(val)
    \/ \E i \in -(MaxLen + 1)..MaxLen, val \in Values : TL_insert(i, val)
    \/ \E other \in SeqsUpTo(Values, MaxLen) : TL_extend(other)
    \/ \E cls \in DOMAIN TypedDictClasses, kwargs \in Kwargs(StrKeys, Values, MaxKw) :
          TD_init(cls, kwargs)
    \/ \E key \in Keys, val \in Values : TD_setitem(key, val)

\* A program using the single-type containers.
Spec == Init /\ [][NextSingle]_vars

NextMTL ==
    \/ \E cls \in DOMAIN MultiTypedListClasses, args \in SeqsUpTo(Values, MaxLen) :
          MTL_init(cls, args)
    \/ \E i \in -(MaxLen + 1)..MaxLen, v \in Values : MTL_setitem(i, v)

\* A program using the positional multi-type sequence.
SpecMTL == Init /\ [][NextMTL]_vars

(***************************************************************************)
(* MultiTypedDict                                                          *)
(***************************************************************************)
\* The subclasses of MultiTypedDict the program declares: name -> the class
\* attributes of its body, each a tuple of types.
MultiTypedDictClasses ==
    [FooMTD |-> [foo |-> {"int"}, bar |-> {"str"}],
     MyMTD |-> [i |-> {"int"}, s |-> {"str"}]]

\* _MultiDictTypedMeta.__init__: cls._keys, the names of the class body.
_keys(cls) == DOMAIN MultiTypedDictClasses[cls]

\* The values a MultiTypedDict is exercised with.
MTDValues == {V("int", 1), V("bool", 1), V("str", 1)}

\* The keys __setitem__ and __delitem__ are exercised with: the declared
\* names, two names every class has as an attribute without declaring them,
\* and a name no class has.
MTDKeys == {"foo", "bar", "i", "s", "__mro__", "data", "zzz"}

\* getattr(self.__class__, k): the declared tuple of types for a declared
\* name; the tuple of base classes, which ends with object, for __mro__;
\* the shared dict for data; AttributeError for a name the class lacks.
getattr(cls, k) ==
    IF k \in _keys(cls) THEN [kind |-> "types", t |-> MultiTypedDictClasses[cls][k]]
    ELSE IF k = "__mro__"
    THEN [kind |-> "types", t |-> {cls, "MultiTypedDict", "UserDict", "object"}]
    ELSE IF k = "data" THEN [kind |-> "dict", t |-> {}]
    ELSE [kind |-> "missing", t |-> {}]

\* self.data of an instance: no instance ever binds data (UserDict.__init__
\* is not called), so the lookup finds the class attribute
\* MultiTypedDict.data, one dict for all instances of all subclasses.
self_data(inst) == data

\* MultiTypedDict.__setitem__ of an instance of cls on the dict d: the
\* outcome and the dict afterwards.
MTD_store(cls, d, k, v) ==
    LET t == getattr(cls, k)
    IN IF t.kind = "missing" THEN [outcome |-> "AttributeError", data |-> d]
       ELSE IF t.kind # "types" THEN [outcome |-> "TypeError", data |-> d]
       ELSE IF ~issubclass(type(v), t.t) THEN [outcome |-> "TypeError", data |-> d]
       ELSE [outcome |-> "ok", data |-> DictSet(d, k, v)]

\* The loop of MultiTypedDict.__init__ over kwargs from position j on:
\* every self[k] = v before the first failure has written into d.
RECURSIVE MTD_fill(_, _, _, _)
MTD_fill(cls, d, kwargs, j) ==
    IF j > Len(kwargs) THEN [outcome |-> "ok", data |-> d]
    ELSE LET r == MTD_store(cls, d, kwargs[j][1], kwargs[j][2])
         IN IF r.outcome # "ok" THEN r ELSE MTD_fill(cls, r.data, kwargs, j + 1)

KwKeys(kwargs) == {kwargs[j][1] : j \in 1..Len(kwargs)}

MTD_init(cls, kwargs) ==
    /\ Len(insts) < MaxInst
    /\ LET clskeys == _keys(cls)
           kwkeys == KwKeys(kwargs)
           r == MTD_fill(cls, data, kwargs, 1)
       IN IF kwkeys # clskeys
          THEN /\ UNCHANGED <<data, insts>>
               /\ last' = [NoOp EXCEPT !.op = "MultiTypedDict.__init__", !.cls = cls,
                                       !.kwargs = kwargs, !.outcome = "ValueError",
                                       !.missing = clskeys \ kwkeys]
          ELSE /\ data' = r.data
               /\ insts' = IF r.outcome = "ok" THEN Append(insts, cls) ELSE insts
               /\ last' = [NoOp EXCEPT !.op = "MultiTypedDict.__init__", !.cls = cls,
                                       !.kwargs = kwargs, !.outcome = r.outcome,
                                       !.inst = IF r.outcome = "ok"
                                                THEN Len(insts) + 1 ELSE 0]
    /\ UNCHANGED <<obj, calls>>

MTD_setitem(inst, k, v) ==
    /\ inst \in DOMAIN insts
    /\ LET r == MTD_store(insts[inst], self_data(inst), k, v)
       IN /\ data' = r.data
          /\ last' = [NoOp EXCEPT !.op = "MultiTypedDict.__setitem__",
                                  !.cls = insts[inst], !.inst = inst, !.slot = k,
                                  !.val = v, !.outcome = r.outcome]
    /\ UNCHANGED <<obj, insts, calls>>

\* The __delitem__ UserDict provides: the key is removed from self.data.
MTD_delitem_inherited(inst, k) ==
    /\ inst \in DOMAIN insts
    /\ IF k \in DOMAIN self_data(inst)
       THEN /\ data' = [x \in (DOMAIN data) \ {k} |-> data[x]]
            /\ last' = [NoOp EXCEPT !.op = "MultiTypedDict.__delitem__",
                                    !.cls = insts[inst], !.inst = inst, !.slot = k,
                                    !.outcome = "ok"]
       ELSE /\ data' = data
            /\ last' = [NoOp EXCEPT !.op = "MultiTypedDict.__delitem__",
                                    !.cls = insts[inst], !.inst = inst, !.slot = k,
                                    !.outcome = "KeyError"]
    /\ UNCHANGED <<obj, insts, calls>>

MTD_delitem(inst, k) ==
    /\ inst \in DOMAIN insts
    /\ last' = [NoOp EXCEPT !.op = "MultiTypedDict.__delitem__", !.cls = insts[inst],
                            !.inst = inst, !.slot = k, !.outcome = "RuntimeError"]
    /\ UNCHANGED <<obj, data, insts, calls>>

NextMTD ==
    \/ \E cls \in DOMAIN MultiTypedDictClasses :
          \E kwargs \in Kwargs(_keys(cls), MTDValues, MaxKw) : MTD_init(cls, kwargs)
    \/ \E inst \in 1..MaxInst, k \in MTDKeys, v \in MTDValues : MTD_setitem(inst, k, v)
    \/ \E inst \in 1..MaxInst, k \in MTDKeys : MTD_delitem(inst, k)

\* A program using the per-key-shape mapping.
SpecMTD == Init /\ [][NextMTD]_vars

(***************************************************************************)
(* checkarguments                                                          *)
(***************************************************************************)
\* The decorated function of the program:
\*   @checkarguments(int, int, a=int, b=str)
\*   def func(*args, **kwargs): ...
t_args == <<{"int"}, {"int"}>>

\* t_kwargs.items(), in declaration order.
t_kwargs == << <<"a", {"int"}>>, <<"b", {"str"}>> >>

\* The keyword names calls are made with: the declared ones and one more.
KwNames == {"a", "b", "c"}

\* The values calls are made with.
CallValues == {V("int", 1), V("str", 1), None}

\* The wrapped function: its result is determined by the arguments it gets.
func(args, kwargs) == <<"func", args, kwargs>>

Min(a, b) == IF a < b THEN a ELSE b

\* The first loop of wrapper, over enumerate(zip(t_args, args)) from pair i
\* (0-based) on: the index of the first positional argument that fails, or -1.
RECURSIVE CheckPositional(_, _)
CheckPositional(args, i) ==
    IF i >= Min(Len(t_args), Len(args)) THEN -1
    ELSE IF ~issubclass(type(args[i + 1]), t_args[i + 1]) THEN i
    ELSE CheckPositional(args, i + 1)

\* The second loop of wrapper, over zip(t_kwargs.items(), kwargs.items())
\* from pair j (1-based) on: the j-th supplied keyword argument is checked
\* against the j-th declared type.  The position of the first supplied
\* argument that fails, or 0.
RECURSIVE CheckKeyword(_, _)
CheckKeyword(kwargs, j) ==
    IF j > Min(Len(t_kwargs), Len(kwargs)) THEN 0
    ELSE IF ~issubclass(type(kwargs[j][2]), t_kwargs[j][2]) THEN j
    ELSE CheckKeyword(kwargs, j + 1)

wrapper(args, kwargs) ==
    /\ calls < MaxCalls
    /\ LET p == CheckPositional(args, 0)
           k == CheckKeyword(kwargs, 1)
       IN IF p # -1
          THEN /\ calls' = calls
               /\ last' = [NoOp EXCEPT !.op = "wrapper", !.args = args,
                                       !.kwargs = kwargs, !.outcome = "TypeError",
                                       !.slot = "positional", !.idx = p]
          ELSE IF k # 0
          THEN /\ calls' = calls
               /\ last' = [NoOp EXCEPT !.op = "wrapper", !.args = args,
                                       !.kwargs = kwargs, !.outcome = "TypeError",
                                       !.slot = "keyword", !.name = kwargs[k][1]]
          ELSE /\ calls' = calls + 1
               /\ last' = [NoOp EXCEPT !.op = "wrapper", !.args = args,
                                       !.kwargs = kwargs, !.outcome = "ok",
                                       !.invoked = 1, !.ret = func(args, kwargs)]
    /\ UNCHANGED <<obj, data, insts>>

NextCall ==
    \E args \in SeqsUpTo(CallValues, MaxLen), kwargs \in Kwargs(KwNames, CallValues, MaxKw) :
        wrapper(args, kwargs)

\* A program calling the decorated function.
SpecCall == Init /\ [][NextCall]_vars

(***************************************************************************)
(* Properties                                                              *)
(***************************************************************************)
\* A value satisfies a type-set when its runtime type is a member of the
\* type-set or a subtype of a member; stated from the type hierarchy
\* (bool is a subtype of int, everything is a subtype of object).
Satisfies(v, T) ==
    \/ type(v) \in T
    \/ type(v) = "bool" /\ "int" \in T
    \/ "object" \in T

\* C1: in every state reachable from Construct by SetAt and the inherited
\* list mutators (append, insert, extend), every element stored in a
\* TypedList satisfies the declared type-set.
C1_EveryElementTyped ==
    obj.kind = "TypedList" =>
        \A j \in 1..Len(obj.data) : Satisfies(obj.data[j], TypedListClasses[obj.cls])

\* C5: after Construct and any SetAt calls, the element stored at each
\* position of a MultiTypedList satisfies the type declared for that position.
C5_EveryPositionTyped ==
    obj.kind = "MultiTypedList" =>
        \A j \in 1..Len(obj.data) :
            Satisfies(obj.data[j], MultiTypedListClasses[obj.cls][j])

C8_ListStep ==
    (last'.op = "TypedList.__setitem__" /\ Pos(last'.idx, Len(obj.data)) # 0) =>
        IF Satisfies(last'.val, TypedListClasses[obj.cls])
        THEN /\ last'.outcome = "ok"
             /\ obj'.kind = obj.kind /\ obj'.cls = obj.cls
             /\ Len(obj'.data) = Len(obj.data)
             /\ \A j \in 1..Len(obj.data) :
                   obj'.data[j] = IF j = Pos(last'.idx, Len(obj.data))
                                  THEN last'.val ELSE obj.data[j]
        ELSE last'.outcome = "TypeError" /\ obj' = obj

C8_DictStep ==
    (/\ last'.op = "TypedDict.__setitem__"
     /\ Satisfies(last'.key, TypedDictClasses[obj.cls].key_type)) =>
        IF Satisfies(last'.val, TypedDictClasses[obj.cls].value_type)
        THEN /\ last'.outcome = "ok"
             /\ obj'.kind = obj.kind /\ obj'.cls = obj.cls
             /\ DOMAIN obj'.data = (DOMAIN obj.data) \cup {last'.key}
             /\ \A k \in DOMAIN obj'.data :
                   obj'.data[k] = IF k = last'.key THEN last'.val ELSE obj.data[k]
        ELSE last'.outcome = "TypeError" /\ obj' = obj

\* C8: SetAt with an in-range index on a TypedList, and SetItem with a key
\* satisfying the key type-set on a TypedDict, store the value in exactly
\* that slot and change no other slot if and only if the value satisfies the
\* declared (value) type-set; otherwise TypeError is raised and the contents
\* are unchanged.
C8_WriteIffTypeMatches == [][C8_ListStep /\ C8_DictStep]_vars

\* C8 witness: SetAt has stored a bool, a subtype of the declared int, at an
\* in-range position of a two-element FooTL.
C8_SubtypeStored ==
    /\ last.op = "TypedList.__setitem__"
    /\ last.outcome = "ok"
    /\ obj.cls = "FooTL"
    /\ type(last.val) = "bool"
    /\ Len(obj.data) = 2
    /\ obj.data[Pos(last.idx, 2)] = last.val

\* The dict an instance's contents are compared with: what dict(kwargs) holds.
RECURSIVE DictOf(_, _)
DictOf(kwargs, j) ==
    IF j = 0 THEN EmptyDict
    ELSE DictSet(DictOf(kwargs, j - 1), kwargs[j][1], kwargs[j][2])

\* Every value of kwargs satisfies the type-set its key declares in cls.
AllValuesMatch(cls, kwargs) ==
    \A j \in 1..Len(kwargs) :
        Satisfies(kwargs[j][2], MultiTypedDictClasses[cls][kwargs[j][1]])

C2_Step ==
    (last'.op = "MultiTypedDict.__init__" /\ KwKeys(last'.kwargs) = _keys(last'.cls)) =>
        IF AllValuesMatch(last'.cls, last'.kwargs)
        THEN /\ last'.outcome = "ok"
             /\ self_data(last'.inst)' = DictOf(last'.kwargs, Len(last'.kwargs))
        ELSE /\ last'.outcome = "TypeError"
             /\ insts' = insts
             /\ \A a \in DOMAIN insts : self_data(a)' = self_data(a)

\* C2: Construct of a MultiTypedDict with exactly the declared keys is
\* all-or-nothing: if some value fails its key's type-set, TypeError is raised
\* and the contents of every instance that already existed are what they
\* were; if every value validates, the new instance holds exactly the
\* supplied entries.
C2_ConstructAllOrNothing == [][C2_Step]_vars

\* The key set of instance a is exactly the declared permitted set.
KeySetDeclared(a) == DOMAIN self_data(a) = _keys(insts[a])

\* C6: SetItem with a key that is not declared always fails and leaves the
\* instance unchanged, for every value; hence SetItem and DeleteItem keep the
\* key set of an instance exactly the declared permitted set (no key added,
\* none removed).
C6_KeySetIsDeclared ==
    /\ [][(last'.op = "MultiTypedDict.__setitem__" /\ last'.slot \notin _keys(last'.cls)) =>
            (last'.outcome # "ok" /\ self_data(last'.inst)' = self_data(last'.inst))]_vars
    /\ [][(/\ last'.op \in {"MultiTypedDict.__setitem__", "MultiTypedDict.__delitem__"}
           /\ KeySetDeclared(last'.inst)) =>
              DOMAIN self_data(last'.inst)' = _keys(insts'[last'.inst])]_vars

C7_Step ==
    last'.op = "MultiTypedDict.__init__" =>
        LET K == _keys(last'.cls)
            S == KwKeys(last'.kwargs)
        IN /\ (S = K /\ AllValuesMatch(last'.cls, last'.kwargs)) =>
                 /\ last'.outcome = "ok"
                 /\ DOMAIN self_data(last'.inst)' = K
           /\ (S \subseteq K /\ S # K) =>
                 /\ last'.outcome = "ValueError"
                 /\ last'.missing = K \ S
                 /\ data' = data /\ insts' = insts

\* C7: Construct of a MultiTypedDict with exactly the declared key set K and
\* matching values succeeds and the instance's key set equals K; Construct
\* with a proper subset S of K fails with ValueError listing exactly K minus
\* S, and stores nothing.
C7_ConstructRequiresAllKeys == [][C7_Step]_vars

\* C9: DeleteItem on a MultiTypedDict instance fails with RuntimeError for
\* every key, declared or not, and leaves the contents unchanged; in every
\* reachable state every instance still has all its required keys.
C9_DeleteForbidden ==
    /\ [][last'.op = "MultiTypedDict.__delitem__" =>
            /\ last'.outcome = "RuntimeError"
            /\ insts' = insts
            /\ \A a \in DOMAIN insts : self_data(a)' = self_data(a)]_vars
    /\ [](\A a \in DOMAIN insts : _keys(insts[a]) \subseteq DOMAIN self_data(a))

\* C9 witness: DeleteItem was called on an instance with a declared key the
\* instance holds.
C9_DeleteAttempted ==
    /\ last.op = "MultiTypedDict.__delitem__"
    /\ last.inst \in DOMAIN insts
    /\ last.slot \in _keys(insts[last.inst])
    /\ last.slot \in DOMAIN self_data(last.inst)

\* C10: a successful Construct of, or SetItem on, one MultiTypedDict instance
\* leaves the contents of every other instance unchanged.
C10_InstancesIndependent ==
    [][(/\ last'.op \in {"MultiTypedDict.__init__", "MultiTypedDict.__setitem__"}
        /\ last'.outcome = "ok") =>
          \A a \in DOMAIN insts : a # last'.inst => self_data(a)' = self_data(a)]_vars

\* The type-set declared for a keyword name, or {} when none is declared.
DeclaredFor(name) ==
    IF \E j \in 1..Len(t_kwargs) : t_kwargs[j][1] = name
    THEN (CHOOSE j \in 1..Len(t_kwargs) : t_kwargs[j][1] = name)
    ELSE 0

\* The j-th supplied keyword argument has a declared type-set and fails it.
KeywordFails(kwargs, j) ==
    /\ DeclaredFor(kwargs[j][1]) # 0
    /\ ~Satisfies(kwargs[j][2], t_kwargs[DeclaredFor(kwargs[j][1])][2])

\* The i-th (0-based) positional argument has a declared type-set and fails it.
PositionalFails(args, i) ==
    /\ i < Len(t_args)
    /\ ~Satisfies(args[i + 1], t_args[i + 1])

\* C3: a call whose positional arguments pass is rejected with TypeError
\* exactly when some supplied keyword argument fails the type-set declared for
\* its own name; keyword arguments without a declared type-set are unchecked.
C3_KeywordsCheckedByName ==
    (/\ last.op = "wrapper"
     /\ \A i \in 0..(Len(last.args) - 1) : ~PositionalFails(last.args, i)) =>
        (last.outcome = "TypeError" <=>
            \E j \in 1..Len(last.kwargs) : KeywordFails(last.kwargs, j))

\* C4: if every checked argument satisfies its declared type-set, the wrapped
\* function is invoked exactly once with the original arguments and its result
\* is returned; otherwise it is never invoked and TypeError identifies the
\* first failing argument, positional arguments first in index order, then
\* keyword arguments in supplied order.
C4_InvokedIffAllValid ==
    last.op = "wrapper" =>
        LET badp == {i \in 0..(Len(last.args) - 1) : PositionalFails(last.args, i)}
            badk == {j \in 1..Len(last.kwargs) : KeywordFails(last.kwargs, j)}
        IN IF badp = {} /\ badk = {}
           THEN /\ last.outcome = "ok"
                /\ last.invoked = 1
                /\ last.ret = func(last.args, last.kwargs)
           ELSE /\ last.outcome = "TypeError"
                /\ last.invoked = 0
                /\ IF badp # {}
                   THEN /\ last.slot = "positional"
                        /\ \A i \in badp : last.idx <= i
                        /\ last.idx \in badp
                   ELSE /\ last.slot = "keyword"
                        /\ \E j \in badk : /\ last.name = last.kwargs[j][1]
                                           /\ \A m \in badk : j <= m

====
